---- MODULE Spec2Model ----
(***************************************************************************)
(* Model of the streaming speech-to-text server (src/unnamed/part_001):    *)
(* per-session audio accumulation, RMS activity detection, the silence     *)
(* timeout checked on chunk ingest, finalizeAndTranscribe with its calls   *)
(* to the transcription provider, and the transcript store with its        *)
(* 5 second expiry timers.                                                 *)
(*                                                                         *)
(* Node runs every handler and every continuation after an await to        *)
(* completion, so each action below is one such run.  Time is the value    *)
(* Date.now() returns, in milliseconds.  A POST /stream carries a chunk of  *)
(* 16-bit samples, or a body express.raw does not parse (another content   *)
(* type, or none), which leaves req.body without bytes.  The provider is a *)
(* black box that answers each call in one of the ways of Responses.       *)
(* A timer callback runs in a later turn of the event loop: handlers that  *)
(* are ready run first, so a timer may still be pending after its due      *)
(* time, and since setTimeout counts from the loop's cached clock it may   *)
(* also run shortly before it.                                             *)
(*                                                                         *)
(* The relay server (src/server.js) is a separate program: it stores the   *)
(* text messages of its upstream WebSocket and hands them out on GET /poll.*)
(* Its state is the variables of relay; the two programs share nothing.    *)
(***************************************************************************)
EXTENDS Integers, Sequences, FiniteSets, TLC

VARIABLES
  now,          \* Date.now()
  sessions,     \* Map id -> session (part_001:33)
  transcripts,  \* Map id -> transcript string (part_001:34)
  timers,       \* pending setTimeout callbacks of part_001:144: how many are
                \* pending for each [id, due]
  finalizes,    \* every run of finalizeAndTranscribe that found a session, in call order:
                \* its locals while it awaits the provider, what it logged once it has ended
  files,        \* scratch files present in os.tmpdir()
  proc,         \* "up", "rejected" (an unhandled rejection happened, process kept running), "down"
  nStream,      \* number of POST /stream requests served
  lastResp,     \* how the last HTTP request was answered (status 0: no response was sent)
                \* and at what Date.now() its handler ran
  writtenAt,    \* history: for each stored transcript, the time of the transcripts.set that stored it
  lastWsResponses,  \* server.js:14, the stored upstream responses, oldest first
  upstream,     \* history: every message the upstream socket delivered, in arrival order
  pollOut,      \* the body of the last GET /poll response (server.js:110)
  polled,       \* history: the arrival numbers of the messages returned by polls, in order
  clearedAt,    \* history: Len(upstream) when lastWsResponses was last emptied
  nPoll         \* number of GET /poll requests served

relay == <<lastWsResponses, upstream, pollOut, polled, clearedAt, nPoll>>
vars == <<now, sessions, transcripts, timers, finalizes, files, proc, nStream, lastResp, writtenAt, relay>>

----------------------------------------------------------------------------
(* Program constants *)

SILENCE_MS == 1200          \* part_001:12, default of the environment option
WARMUP_MS == 2000           \* part_001:76
TRANSCRIPT_TTL_MS == 5000   \* part_001:144
DEFAULT_ID == "default"     \* part_001:50

(* Bounds of the model *)

MaxTime == 1300      \* the clock advances freely up to here, then only to the next timer
MaxStream == 3       \* POST /stream requests served in a run
MaxFinalize == 2     \* runs of finalizeAndTranscribe that find a session
MaxAudio == 3        \* chunks a session retains
MaxMsg == 4          \* messages the relay's upstream socket delivers
MaxPoll == 3         \* GET /poll requests the relay serves

(* Inputs.  A chunk is a buffer of len bytes whose 16-bit samples all have   *)
(* the value amp; 656/32768 is the smallest constant amplitude above 0.02    *)
(* and 655/32768 the largest one not above it.  At 16000 Hz the three chunks *)
(* last 1000 ms (loud), 2000 ms (loud) and 500 ms (silent).                  *)

ReqIds == {"", "a/b"}     \* req.query.id as received ("" when absent)
Rates == {16000}                \* parsed req.query.sample_rate
Chunks == { [amp |-> 656, len |-> 32000], [amp |-> -700, len |-> 64000],
            [amp |-> -655, len |-> 16000] }
NoBody == [amp |-> 0, len |-> -1]   \* req.body is not a Buffer ({} or undefined)
TickSteps == {1200, 1300}       \* how far the clock may advance between events
WakeOffsets == {-1, 0, 1}       \* where the clock stands, relative to the due time of the
                                \* next timer, when the loop is next busy
Responses == {"text", "noalt", "httperr", "badbody", "neterr"}

----------------------------------------------------------------------------
(* Helpers *)

Abs(x) == IF x < 0 THEN -x ELSE x
SetMin(S) == CHOOSE x \in S : \A y \in S : x <= y
Put(f, k, v) == [x \in DOMAIN f \cup {k} |-> IF x = k THEN v ELSE f[x]]
Remove(f, k) == [x \in DOMAIN f \ {k} |-> f[x]]

\* setTimeout registers one more callback t (part_001:144); a callback that
\* has run is no longer pending.  Two writes of one id in the same
\* millisecond leave two callbacks with the same id and due time.
Count(T, t) == IF t \in DOMAIN T THEN T[t] ELSE 0
SetTimeout(T, t) == Put(T, t, Count(T, t) + 1)
TimerDone(T, t) == IF T[t] > 1 THEN Put(T, t, T[t] - 1) ELSE Remove(T, t)

\* req.query.id || 'default'
IdOf(rid) == IF rid = "" THEN DEFAULT_ID ELSE rid

\* calcRMS of a constant-amplitude buffer, in units of 1/32768; -1 stands for
\* NaN (no complete sample: 0/0).
calcRMS(chunk) == IF chunk.len \div 2 = 0 THEN -1 ELSE Abs(chunk.amp)

\* rms > 0.02, with rms in units of 1/32768 (NaN > 0.02 is false)
IsActive(rms) == rms * 50 > 32768

\* chunk.length / (sampleRate * 2) * 1000; exact for the lengths and rates above
DurationMs(len, rate) == (len * 1000) \div (rate * 2)

\* Buffer.concat: the bytes of the chunks in order.  A buffer is a sequence of
\* runs [amp, len]; adjacent runs of equal amplitude are the same bytes as one
\* run, so they are merged.
AppendRun(buf, c) ==
  IF c.len = 0 THEN buf
  ELSE IF buf # <<>> /\ buf[Len(buf)].amp = c.amp
       THEN [buf EXCEPT ![Len(buf)].len = @ + c.len]
       ELSE Append(buf, c)

RECURSIVE BufferConcat(_)
BufferConcat(list) ==
  IF list = <<>> THEN <<>>
  ELSE AppendRun(BufferConcat(SubSeq(list, 1, Len(list) - 1)), list[Len(list)])

----------------------------------------------------------------------------
(* POST /stream: the session state machine *)

NewSession(rate, t) ==
  [audio |-> <<>>, lastHeard |-> t, startedTalking |-> FALSE,
   rmsActiveTime |-> 0, sampleRate |-> rate]

\* mutant of KeepsSilence: silence is kept only until the first loud chunk
KeepsSilenceBeforeSpeechOnly(session) == ~session.startedTalking

\* mutant of KeepsSilence: every silence chunk is kept
KeepsSilenceAlways(session) == TRUE

\* part_001:76, whether a silence-classified chunk is kept
KeepsSilence(session) == ~session.startedTalking \/ session.rmsActiveTime < WARMUP_MS

\* mutant of Absorb: a loud chunk is timed at the session's rate instead of the
\* rate its request declares
AbsorbAtSessionRate(session, chunk, rate, t) ==
  IF IsActive(calcRMS(chunk))
  THEN [session EXCEPT !.lastHeard = t,
                       !.audio = Append(@, chunk),
                       !.startedTalking = TRUE,
                       !.rmsActiveTime = @ + DurationMs(chunk.len, session.sampleRate)]
  ELSE IF KeepsSilence(session)
       THEN [session EXCEPT !.audio = Append(@, chunk), !.lastHeard = t]
       ELSE session

\* mutant of Absorb: every chunk sets the session's rate to the declared one
AbsorbAdoptRate(session, chunk, rate, t) ==
  IF IsActive(calcRMS(chunk))
  THEN [session EXCEPT !.lastHeard = t,
                       !.audio = Append(@, chunk),
                       !.startedTalking = TRUE,
                       !.rmsActiveTime = @ + DurationMs(chunk.len, rate),
                       !.sampleRate = rate]
  ELSE IF KeepsSilence(session)
       THEN [session EXCEPT !.audio = Append(@, chunk), !.lastHeard = t, !.sampleRate = rate]
       ELSE [session EXCEPT !.sampleRate = rate]

\* mutant of Absorb: a loud chunk does not refresh lastHeard
AbsorbStaleHeard(session, chunk, rate, t) ==
  IF IsActive(calcRMS(chunk))
  THEN [session EXCEPT !.audio = Append(@, chunk),
                       !.startedTalking = TRUE,
                       !.rmsActiveTime = @ + DurationMs(chunk.len, rate)]
  ELSE IF KeepsSilence(session)
       THEN [session EXCEPT !.audio = Append(@, chunk), !.lastHeard = t]
       ELSE session

\* part_001:68-80
Absorb(session, chunk, rate, t) ==
  IF IsActive(calcRMS(chunk))
  THEN [session EXCEPT !.lastHeard = t,
                       !.audio = Append(@, chunk),
                       !.startedTalking = TRUE,
                       !.rmsActiveTime = @ + DurationMs(chunk.len, rate)]
  ELSE IF KeepsSilence(session)
       THEN [session EXCEPT !.audio = Append(@, chunk), !.lastHeard = t]
       ELSE session

\* part_001:83
SilenceTimeout(session, t) == session.startedTalking /\ t - session.lastHeard > SILENCE_MS

----------------------------------------------------------------------------
(* finalizeAndTranscribe *)

\* Ids holding a path separator: path.join(tmpdir(), `audio_${id}_...`) then names
\* a file in a directory audio_a/ that does not exist, and writeFileSync throws.
PathSepIds == {"a/b"}
CanStage(id) == id \notin PathSepIds

\* the transcript the provider returns for the n-th utterance it is sent
ProviderText(n) == "utterance " \o ToString(n)

\* json?.results?.channels?.[0]?.alternatives?.[0]?.transcript || ''
ExtractTranscript(resp, n) == IF resp = "text" THEN ProviderText(n) ELSE ""

NoFile == [id |-> "", t |-> -1]

\* mutant of DeleteSession: the session stays in the store during the call
DeleteSessionLater(S, id) == S

\* sessions.delete(id), part_001:114
DeleteSession(S, id) == Remove(S, id)

\* mutant of Ended: the run records its outcome and keeps waiting for the provider
EndedStillCalling(job, end) == [job EXCEPT !.resp = end]

\* A run that has ended: its locals (session, tmpFile, fileData) are gone; what
\* is left is how it ended: "noaudio" (part_001:115), "rejected" (it threw and
\* the rejection reached nobody), or what its provider call came to.
Ended(job, end) ==
  [id |-> job.id, sampleRate |-> 0, rmsActiveTime |-> 0, body |-> <<>>, tmpFile |-> NoFile,
   auto |-> job.auto, pc |-> "done", resp |-> end]

\* The synchronous part of finalizeAndTranscribe(id), part_001:110-133, run on
\* the session store S (the store as the caller left it).  auto records the
\* caller: TRUE for the silence check of POST /stream, FALSE for GET /finalize.
finalizeAndTranscribe(id, S, auto) ==
  IF id \notin DOMAIN S
  THEN sessions' = S /\ UNCHANGED <<finalizes, files, proc>>
  ELSE LET session == S[id]
           job == [id |-> id, sampleRate |-> session.sampleRate,
                   rmsActiveTime |-> session.rmsActiveTime,
                   body |-> BufferConcat(session.audio),
                   tmpFile |-> [id |-> id, t |-> now],
                   auto |-> auto, pc |-> "fetch", resp |-> "none"]
       IN /\ sessions' = DeleteSession(S, id)
          /\ IF session.audio = <<>>
             THEN \* "No audio to process"
                  /\ finalizes' = Append(finalizes, Ended(job, "noaudio"))
                  /\ UNCHANGED <<files, proc>>
             ELSE IF ~CanStage(id)
             THEN \* writeFileSync throws outside the try: the promise is rejected
                  \* and no caller handles it.  Node then ends the process, or only
                  \* warns (--unhandled-rejections=warn, and the default before Node 15).
                  /\ finalizes' = Append(finalizes, Ended(job, "rejected"))
                  /\ proc' \in {"rejected", "down"}
                  /\ UNCHANGED files
             ELSE /\ finalizes' = Append(finalizes, job)
                  /\ files' = files \cup {job.tmpFile}
                  /\ UNCHANGED proc

\* the process is alive: handlers and continuations run
Serving == proc # "down"

\* POST /stream, part_001:49-89.  Without a Buffer in req.body, Buffer.from
\* (line 64) throws after the session was created (53-61): the async handler's
\* promise is rejected, nobody handles it and no response is sent.
Stream(rid, rate, chunk) ==
  LET id == IdOf(rid)
      S0 == IF id \in DOMAIN sessions THEN sessions ELSE Put(sessions, id, NewSession(rate, now))
  IN /\ Serving
     /\ nStream < MaxStream
     /\ nStream' = nStream + 1
     /\ IF chunk = NoBody
        THEN /\ sessions' = S0
             /\ proc' \in {"rejected", "down"}
             /\ lastResp' = [op |-> "stream", id |-> id, status |-> 0,
                             ready |-> FALSE, transcript |-> "", rms |-> 0, at |-> now]
             /\ UNCHANGED <<finalizes, files>>
        ELSE LET session == Absorb(S0[id], chunk, rate, now)
                 S1 == [S0 EXCEPT ![id] = session]
                 fires == SilenceTimeout(session, now)
             IN /\ Len(session.audio) <= MaxAudio
                /\ fires => Len(finalizes) < MaxFinalize
                /\ IF fires
                   THEN finalizeAndTranscribe(id, S1, TRUE)
                   ELSE sessions' = S1 /\ UNCHANGED <<finalizes, files, proc>>
                /\ lastResp' = [op |-> "stream", id |-> id, status |-> 200,
                                ready |-> FALSE, transcript |-> "", rms |-> calcRMS(chunk), at |-> now]
     /\ UNCHANGED <<now, transcripts, timers, writtenAt, relay>>

\* GET /transcript, part_001:92-99.  !transcript is true of undefined and of ''.
TranscriptResponse(id) ==
  IF id \notin DOMAIN transcripts \/ transcripts[id] = ""
  THEN [op |-> "transcript", id |-> id, status |-> 200, ready |-> FALSE, transcript |-> "", rms |-> 0, at |-> now]
  ELSE [op |-> "transcript", id |-> id, status |-> 200, ready |-> TRUE,
        transcript |-> transcripts[id], rms |-> 0, at |-> now]

Transcript(rid) ==
  /\ Serving
  /\ lastResp' = TranscriptResponse(IdOf(rid))
  /\ UNCHANGED <<now, sessions, transcripts, timers, finalizes, files, proc, nStream, writtenAt, relay>>

\* GET /finalize, part_001:102-107
Finalize(rid) ==
  LET id == IdOf(rid) IN
  /\ Serving
  /\ IF id \notin DOMAIN sessions
     THEN /\ lastResp' = [op |-> "finalize", id |-> id, status |-> 404, ready |-> FALSE,
                          transcript |-> "", rms |-> 0, at |-> now]
          /\ UNCHANGED <<sessions, finalizes, files, proc>>
     ELSE /\ Len(finalizes) < MaxFinalize
          /\ finalizeAndTranscribe(id, sessions, FALSE)
          /\ lastResp' = [op |-> "finalize", id |-> id, status |-> 200, ready |-> FALSE,
                          transcript |-> "", rms |-> 0, at |-> now]
  /\ UNCHANGED <<now, transcripts, timers, nStream, writtenAt, relay>>

\* mutant of Unlink: the scratch file is left behind
UnlinkNothing(F, f) == F

\* fs.unlinkSync(tmpFile) in the finally block, part_001:149; a missing file
\* makes it throw, which the empty catch swallows.
Unlink(F, f) == F \ {f}

\* mutant of ExpiryDelay: the deletion is scheduled too late
ExpiryDelayLate(id, transcript) == TRANSCRIPT_TTL_MS + SILENCE_MS

\* the delay of the setTimeout of part_001:144
ExpiryDelay(id, transcript) == TRANSCRIPT_TTL_MS

\* Whether the try block reaches transcripts.set: fetch rejects on a network
\* error and resp.json() rejects on a body that is not JSON; an HTTP error
\* status with a JSON body is not looked at (resp.ok is never read).
ReachesStore(resp) == resp \notin {"neterr", "badbody"}

\* What the provider call came to: "answered" (a 2xx answer, with or without
\* alternatives), "httperr" (a non-success status with a JSON body), "error"
\* (fetch or resp.json() rejected; the catch of part_001:146 logged it).
Outcome(resp) ==
  IF resp \in {"text", "noalt"} THEN "answered"
  ELSE IF resp = "httperr" THEN "httperr" ELSE "error"

\* The rest of finalizeAndTranscribe, part_001:123-150, once the provider call
\* of run i has settled with resp.  The two awaits (fetch, resp.json()) are one
\* step: the continuation between them touches nothing shared.
Settle(i, resp) ==
  /\ Serving
  /\ i \in DOMAIN finalizes
  /\ finalizes[i].pc = "fetch"
  /\ LET f == finalizes[i]
         transcript == ExtractTranscript(resp, i)
     IN IF ReachesStore(resp)
        THEN /\ finalizes' = [finalizes EXCEPT ![i] = Ended(f, Outcome(resp))]
             /\ transcripts' = Put(transcripts, f.id, transcript)
             /\ writtenAt' = Put(writtenAt, f.id, now)
             /\ timers' = SetTimeout(timers, [id |-> f.id, due |-> now + ExpiryDelay(f.id, transcript)])
        ELSE /\ finalizes' = [finalizes EXCEPT ![i] = Ended(f, Outcome(resp))]
             /\ UNCHANGED <<transcripts, timers, writtenAt>>
  /\ files' = Unlink(files, finalizes[i].tmpFile)
  /\ UNCHANGED <<now, sessions, proc, nStream, lastResp, relay>>

\* how long before now + 5000 on Date.now() a timer may run: setTimeout counts
\* from the event loop's cached clock, which lags Date.now()
TimerLead == 1

\* the callback of part_001:144: transcripts.delete(id)
Expire(t) ==
  /\ proc # "down"
  /\ t \in DOMAIN timers
  /\ t.due - TimerLead <= now
  /\ timers' = TimerDone(timers, t)
  /\ transcripts' = Remove(transcripts, t.id)
  /\ writtenAt' = Remove(writtenAt, t.id)
  /\ UNCHANGED <<now, sessions, finalizes, files, proc, nStream, lastResp, relay>>

\* Time passes while requests and responses may still arrive.
Tick(d) ==
  /\ Serving
  /\ now + d <= MaxTime
  /\ now' = now + d
  /\ UNCHANGED <<sessions, transcripts, timers, finalizes, files, proc, nStream, lastResp, writtenAt, relay>>

\* Nothing happens until about the time the next pending timer is due: the
\* next turn of the loop starts just before, at, or just after that time, and
\* the handlers ready in that turn run before the timer does.
Idle ==
  /\ Serving
  /\ DOMAIN timers # {}
  /\ \E o \in WakeOffsets : now' = SetMin({t.due : t \in DOMAIN timers}) + o
  /\ now' > now
  /\ UNCHANGED <<sessions, transcripts, timers, finalizes, files, proc, nStream, lastResp, writtenAt, relay>>

Init ==
  /\ now = 0
  /\ sessions = <<>>
  /\ transcripts = <<>>
  /\ timers = <<>>
  /\ finalizes = <<>>
  /\ files = {}
  /\ proc = "up"
  /\ nStream = 0
  /\ writtenAt = <<>>
  /\ lastResp = [op |-> "none", id |-> "", status |-> 0, ready |-> FALSE, transcript |-> "", rms |-> 0, at |-> now]
  /\ lastWsResponses = <<>>
  /\ upstream = <<>>
  /\ pollOut = <<>>
  /\ polled = <<>>
  /\ clearedAt = 0
  /\ nPoll = 0

Next ==
  \/ \E rid \in ReqIds, rate \in Rates, chunk \in Chunks \cup {NoBody} : Stream(rid, rate, chunk)
  \/ \E rid \in ReqIds : Transcript(rid)
  \/ \E rid \in ReqIds : Finalize(rid)
  \/ \E i \in 1..MaxFinalize, resp \in Responses : Settle(i, resp)
  \/ \E t \in DOMAIN timers : Expire(t)
  \/ \E d \in TickSteps : Tick(d)
  \/ Idle

Spec == Init /\ [][Next]_vars

----------------------------------------------------------------------------
(* The server before any stored transcript is old enough to expire: the     *)
(* clock stays within MaxTime, which is less than the 5000 ms of a timer.   *)

NextShort ==
  \/ \E rid \in ReqIds, rate \in Rates, chunk \in Chunks \cup {NoBody} : Stream(rid, rate, chunk)
  \/ \E rid \in ReqIds : Transcript(rid)
  \/ \E rid \in ReqIds : Finalize(rid)
  \/ \E i \in 1..MaxFinalize, resp \in Responses : Settle(i, resp)
  \/ \E d \in TickSteps : Tick(d)

SpecShort == Init /\ [][NextShort]_vars

----------------------------------------------------------------------------
(* One session id fed by requests that declare different sample rates,      *)
(* before any stored transcript is old enough to expire.  At                 *)
(* 8000 Hz the loud chunk of 32000 bytes lasts 2000 ms (1000 ms at 16000 Hz).*)
(* The empty chunk is a request body of no bytes.                            *)

RateIds == {""}
RatesTwo == {16000, 8000}
RateChunks == { [amp |-> 656, len |-> 32000], [amp |-> -655, len |-> 16000],
                [amp |-> 0, len |-> 0] }
RateResponses == {"text", "neterr"}

NextRates ==
  \/ \E rid \in RateIds, rate \in RatesTwo, chunk \in RateChunks \cup {NoBody} :
        Stream(rid, rate, chunk)
  \/ \E rid \in RateIds : Transcript(rid)
  \/ \E rid \in RateIds : Finalize(rid)
  \/ \E i \in 1..MaxFinalize, resp \in RateResponses : Settle(i, resp)
  \/ \E d \in TickSteps : Tick(d)

SpecRates == Init /\ [][NextRates]_vars

----------------------------------------------------------------------------
(* The transcript store over the life of its timers: one id, whose sessions *)
(* of one loud chunk are finalized by hand.                                  *)

ExpiryIds == {""}
ExpiryChunks == { [amp |-> -700, len |-> 64000] }
ExpiryResponses == {"text", "noalt", "neterr"}
ExpiryTicks == {1300}

NextExpiry ==
  \/ \E rid \in ExpiryIds, rate \in Rates, chunk \in ExpiryChunks : Stream(rid, rate, chunk)
  \/ \E rid \in ExpiryIds : Transcript(rid)
  \/ \E rid \in ExpiryIds : Finalize(rid)
  \/ \E i \in 1..MaxFinalize, resp \in ExpiryResponses : Settle(i, resp)
  \/ \E t \in DOMAIN timers : Expire(t)
  \/ \E d \in ExpiryTicks : Tick(d)
  \/ Idle

SpecExpiry == Init /\ [][NextExpiry]_vars

----------------------------------------------------------------------------
(* Properties *)

Last(seq) == seq[Len(seq)]
Started == Len(finalizes') = Len(finalizes) + 1      \* this step ran finalizeAndTranscribe on a session
StreamStep(id) ==        \* a chunk for id was taken in and answered
  nStream' = nStream + 1 /\ lastResp'.op = "stream" /\ lastResp'.id = id /\ lastResp'.status = 200
StartedFor(id) == Started /\ Last(finalizes').id = id
ManualStep(id) == StartedFor(id) /\ ~Last(finalizes').auto    \* GET /finalize found the session
NotFoundStep(id) ==                                          \* GET /finalize found none
  lastResp' # lastResp /\ lastResp'.op = "finalize" /\ lastResp'.id = id /\ id \notin DOMAIN sessions
AllLoud(audio) == \A k \in DOMAIN audio : IsActive(calcRMS(audio[k]))

\* The session id has received loud chunks only, more than 2000 ms of them, and
\* nothing for more than SILENCE_MS.
Overdue(id) ==
  /\ id \in DOMAIN sessions
  /\ sessions[id].audio # <<>> /\ AllLoud(sessions[id].audio)
  /\ sessions[id].rmsActiveTime > WARMUP_MS
  /\ now - sessions[id].lastHeard > SILENCE_MS

\* C1 as stated: once a session that heard only loud chunks (more than 2000 ms)
\* has been silent for more than SILENCE_MS, the Finalizer has been invoked for
\* it without any further chunk, so no such session is still in the store.
\* The handler of POST /stream holds the only silence check (part_001:83) and
\* the only timer of the program deletes a transcript (part_001:144): while no
\* request arrives, the session stays in the store.
C1_FinalizedByTimeAlone == \A id \in DOMAIN sessions : ~Overdue(id)

\* C2 as stated: a read of the transcript answers ready = true with the stored
\* text exactly when the store holds an entry for the id (the empty string
\* included), and ready = false with empty text otherwise.
C2_ReadyIffStored ==
  [][(lastResp' # lastResp /\ lastResp'.op = "transcript") =>
        LET id == lastResp'.id IN
        /\ lastResp'.ready <=> id \in DOMAIN transcripts
        /\ lastResp'.ready => lastResp'.transcript = transcripts[id]
        /\ ~lastResp'.ready => lastResp'.transcript = ""]_vars

\* C3 as stated: a readable transcript written at T is removed from the
\* transcript store by no event before T + TTL (here even granting its own
\* timer the TimerLead by which a timer may run early).
C3_KeptUntilTtl ==
  [][\A id \in DOMAIN transcripts :
        TranscriptResponse(id).ready /\ id \notin DOMAIN transcripts'
          => now >= writtenAt[id] + TRANSCRIPT_TTL_MS - TimerLead]_vars

\* the step stored a transcript for id
WroteTranscript(id) ==
  /\ id \in DOMAIN transcripts'
  /\ \/ id \notin DOMAIN transcripts
     \/ transcripts'[id] # transcripts[id]
     \/ writtenAt'[id] # writtenAt[id]

\* a GET /transcript for id was served in this step
ReadStep(id) == lastResp' # lastResp /\ lastResp'.op = "transcript" /\ lastResp'.id = id

\* the deletion that the last write of id scheduled
OwnTimer(id, W) == [id |-> id, due |-> W[id] + TRANSCRIPT_TTL_MS]

\* C4 as stated: a read of an id served at or after (time of the last write of
\* the id) + TTL answers not-ready.
C4_GoneAtTtl ==
  [][\A id \in DOMAIN transcripts :
        (ReadStep(id) /\ now >= writtenAt[id] + TRANSCRIPT_TTL_MS) => ~lastResp'.ready]_vars

\* the step changed the number of pending callbacks of t by d and of no other
OnlyTimer(t, d) ==
  \A u \in DOMAIN timers \cup DOMAIN timers' :
    Count(timers', u) = Count(timers, u) + (IF u = t THEN d ELSE 0)

\* C4 amended.  (1) A write of id at T schedules one deletion of id, due at
\* T + TTL, and cancels none.  (2) A pending deletion leaves only by running,
\* one at a time, not more than TimerLead before it is due, and when it has
\* run its id is not in the store.  (3) An entry is in the store only while
\* the deletion of its own write is pending, and it leaves the store only in a
\* step in which a deletion scheduled for its id (by its own or by another
\* write) runs.  (4) A read answers from the store: not-ready when the id has
\* no entry, so from the moment the deletion of the last write has run; ready
\* with the stored text only while that deletion is pending.  (5) While the
\* process lives, every stored entry is eventually removed.
C4_RemovedOnceTimerRuns ==
  /\ [][ /\ \A id \in DOMAIN transcripts' : WroteTranscript(id) =>
              /\ writtenAt'[id] = now
              /\ OnlyTimer(OwnTimer(id, writtenAt'), 1)
         /\ \A t \in DOMAIN timers : Count(timers', t) < timers[t] =>
              /\ t.id \notin DOMAIN transcripts'
              /\ now + TimerLead >= t.due
              /\ OnlyTimer(t, -1)
         /\ \A id \in DOMAIN transcripts' : OwnTimer(id, writtenAt') \in DOMAIN timers'
         /\ \A id \in DOMAIN transcripts : id \notin DOMAIN transcripts' =>
              \E t \in DOMAIN timers : t.id = id /\ Count(timers', t) < timers[t]
         /\ \A id \in {lastResp'.id} : ReadStep(id) =>
              /\ id \notin DOMAIN transcripts => ~lastResp'.ready
              /\ lastResp'.ready =>
                   /\ id \in DOMAIN transcripts /\ lastResp'.transcript = transcripts[id]
                   /\ OwnTimer(id, writtenAt) \in DOMAIN timers
       ]_vars
  /\ \A id \in {DEFAULT_ID} :
       (id \in DOMAIN transcripts) ~> (id \notin DOMAIN transcripts \/ proc = "down")

\* a read served at T + TTL or later, T the time of the last write of the id,
\* was answered ready with the stored text: the deletion had not run yet
C4_Witness ==
  \E id \in DOMAIN transcripts :
    /\ lastResp.op = "transcript" /\ lastResp.id = id /\ lastResp.ready
    /\ lastResp.at >= writtenAt[id] + TRANSCRIPT_TTL_MS
    /\ lastResp.transcript = transcripts[id]
    /\ OwnTimer(id, writtenAt) \in DOMAIN timers

\* C5: chunk ingest never finalizes a session whose active duration is below
\* the 2000 ms warm-up threshold, whatever time has passed; such a session
\* leaves the store only through a manual finalize.
C5_NoAutoFinalizeBeforeWarmup ==
  [][\A id \in DOMAIN sessions : sessions[id].rmsActiveTime < WARMUP_MS =>
        /\ StreamStep(id) => id \in DOMAIN sessions' /\ ~Started
        /\ id \notin DOMAIN sessions' =>
             ManualStep(id) /\ lastResp'.op = "finalize" /\ lastResp'.status = 200]_vars

\* a session that has started talking, is short of the warm-up, and has just
\* kept a silence chunk that came more than SILENCE_MS after its loud one
C5_Witness ==
  \E id \in DOMAIN sessions :
    LET s == sessions[id] IN
    /\ s.startedTalking /\ s.rmsActiveTime < WARMUP_MS
    /\ Len(s.audio) = 2
    /\ IsActive(calcRMS(s.audio[1])) /\ ~IsActive(calcRMS(s.audio[2]))
    /\ s.lastHeard > SILENCE_MS /\ s.lastHeard = now
    /\ lastResp.op = "stream" /\ lastResp.id = id

\* C6 as stated: an id is in the session store exactly from its first chunk since the last
\* finalize (or since start) up to the next finalize.  A chunk leaves the id
\* present unless that ingest finalized it; an id leaves the store only in a step
\* that runs the Finalizer on it, and is absent right after such a step; an id
\* enters the store only by a chunk, as a fresh session holding that chunk alone
\* (no earlier audio, no earlier active time, startedTalking only if it is loud).
C6_PresentIffFedSinceFinalize ==
  [][\A rid \in ReqIds : LET id == IdOf(rid) IN
        /\ StreamStep(id) => (id \in DOMAIN sessions' <=> ~StartedFor(id))
        /\ (id \in DOMAIN sessions /\ id \notin DOMAIN sessions') => StartedFor(id)
        /\ StartedFor(id) => id \in DOMAIN sessions /\ id \notin DOMAIN sessions'
        /\ (id \notin DOMAIN sessions /\ id \in DOMAIN sessions') =>
             LET s == sessions'[id] IN
             /\ StreamStep(id)
             /\ Len(s.audio) = 1 /\ s.lastHeard = now
             /\ s.startedTalking <=> IsActive(calcRMS(s.audio[1]))
             /\ s.rmsActiveTime =
                  IF s.startedTalking THEN DurationMs(s.audio[1].len, s.sampleRate) ELSE 0]_vars

\* C7 as stated: a manual finalize of an existing session makes exactly one
\* transcription call; a manual finalize that finds no session (the second of
\* two in a row) answers not-found and changes neither store nor starts a call.
C7_FinalizeOnceThenNotFound ==
  [][\A rid \in ReqIds : LET id == IdOf(rid) IN
        /\ ManualStep(id) => Last(finalizes').pc = "fetch" /\ lastResp'.status = 200
        /\ NotFoundStep(id) =>
             /\ lastResp'.status = 404
             /\ UNCHANGED <<sessions, transcripts, timers, finalizes, files>>]_vars

\* C8 as stated: when the provider call of a run fails (network error,
\* non-success response, malformed body), the run writes no transcript, leaves
\* the session store alone, starts no new call and raises nothing.
FailedOutcomes == {"httperr", "error"}
C8_FailedCallWritesNothing ==
  [][\A i \in DOMAIN finalizes :
        (finalizes[i].pc = "fetch" /\ finalizes'[i].pc = "done"
           /\ finalizes'[i].resp \in FailedOutcomes)
        => /\ UNCHANGED <<transcripts, timers, sessions, proc>>
           /\ Len(finalizes') = Len(finalizes)]_vars

\* C9 as stated: no failure inside finalize escapes it as an unhandled error:
\* a step that runs the Finalizer leaves the process as it was, and no run ends
\* by a rejection that nobody handles.
C9_NothingEscapesFinalize ==
  [][Started => (proc' = proc /\ Last(finalizes').resp # "rejected")]_vars

\* C10 as stated: once the calls of two runs for the same id have both completed
\* and stored a transcript, the store holds the transcript of the later run
\* (the provider's transcript of utterance j, or '' when it gave none).
Stored(f) == f.pc = "done" /\ f.resp \in {"answered", "httperr"}
C10_LaterFinalizeWins ==
  \A i, j \in DOMAIN finalizes :
    (/\ i < j /\ finalizes[i].id = finalizes[j].id
     /\ Stored(finalizes[i]) /\ Stored(finalizes[j])
     /\ \A k \in DOMAIN finalizes : k > j => finalizes[k].id # finalizes[j].id
     /\ finalizes[j].id \in DOMAIN transcripts)
    => transcripts[finalizes[j].id] \in {ProviderText(j), ""}

\* what an ingest of chunk, declared at rate, adds to the active duration
ActiveGain(chunk, rate) ==
  IF IsActive(calcRMS(chunk)) THEN DurationMs(chunk.len, rate) ELSE 0

\* the active duration of the session of id before the step (0 when there is none)
ActiveBefore(id) == IF id \in DOMAIN sessions THEN sessions[id].rmsActiveTime ELSE 0

\* C11: rmsActiveTime is the running sum of len(c)/(2*r)*1000 over the active
\* chunks of the session, r being the rate the chunk's request declares: each
\* ingest adds exactly that amount for an active chunk and nothing for a silence
\* chunk (kept or dropped), a new session starts the sum at 0, no other step
\* changes it, and it never decreases while the session lives; the sum is what
\* a finalize started by the ingest takes with it.
C11_ActiveTimeIsSumOfActiveChunks ==
  [][\A rid \in RateIds : LET id == IdOf(rid) IN
        /\ \A rate \in RatesTwo, chunk \in RateChunks :
              Stream(rid, rate, chunk) =>
                LET sum == ActiveBefore(id) + ActiveGain(chunk, rate) IN
                /\ id \in DOMAIN sessions' => sessions'[id].rmsActiveTime = sum
                /\ (StartedFor(id) /\ Last(finalizes').pc = "fetch") =>
                      Last(finalizes').rmsActiveTime = sum
        /\ (id \in DOMAIN sessions /\ id \in DOMAIN sessions') =>
              /\ sessions'[id].rmsActiveTime >= sessions[id].rmsActiveTime
              /\ ~StreamStep(id) => sessions'[id].rmsActiveTime = sessions[id].rmsActiveTime]_vars

\* a session created at 16000 Hz whose two loud chunks were declared at 16000 and
\* at 8000 Hz, followed by silence that was dropped: 1000 + 2000 ms
C11_Witness ==
  \E id \in DOMAIN sessions :
    LET s == sessions[id] IN
    /\ s.sampleRate = 16000 /\ s.rmsActiveTime = 3000
    /\ Len(s.audio) = 2 /\ AllLoud(s.audio)
    /\ lastResp.op = "stream" /\ ~IsActive(lastResp.rms)

\* C15: the sampleRate of a session is the rate declared by the chunk that
\* created it; every later chunk is accepted (answered 200) whatever rate it
\* declares and leaves sampleRate as it was, as does every other step; the rate
\* a finalize takes to the provider is the session's sampleRate, and it stays
\* the same while the call is in flight.
C15_SampleRateFixedAtCreation ==
  [][\A rid \in RateIds : LET id == IdOf(rid) IN
        /\ \A rate \in RatesTwo, chunk \in RateChunks :
              Stream(rid, rate, chunk) =>
                /\ lastResp'.status = 200
                /\ (id \notin DOMAIN sessions /\ id \in DOMAIN sessions') =>
                      sessions'[id].sampleRate = rate
        /\ (id \in DOMAIN sessions /\ id \in DOMAIN sessions') =>
              sessions'[id].sampleRate = sessions[id].sampleRate
        /\ (StartedFor(id) /\ Last(finalizes').pc = "fetch") =>
              Last(finalizes').sampleRate = sessions[id].sampleRate
        /\ \A i \in DOMAIN finalizes :
              finalizes'[i].pc = "fetch" => finalizes'[i].sampleRate = finalizes[i].sampleRate]_vars

\* a call in flight at 16000 Hz for a session whose later loud chunk was declared
\* at 8000 Hz (1000 + 2000 ms of active audio in two chunks of equal length)
C15_Witness ==
  \E i \in DOMAIN finalizes :
    /\ finalizes[i].pc = "fetch" /\ finalizes[i].sampleRate = 16000
    /\ finalizes[i].rmsActiveTime = 3000
    /\ finalizes[i].body = <<[amp |-> 656, len |-> 64000]>>

\* the chunks the session of id holds before the step (none when there is no session)
AudioBefore(id) == IF id \in DOMAIN sessions THEN sessions[id].audio ELSE <<>>

\* the session of id has started talking and heard its 2000 ms before the step
WarmedUp(id) ==
  id \in DOMAIN sessions /\ sessions[id].startedTalking /\ sessions[id].rmsActiveTime >= WARMUP_MS

\* C12: a session's audio is, in arrival order, every active chunk and every
\* silence chunk that arrived before the session had both started talking and
\* heard 2000 ms; a silence chunk arriving after that is not added.  The buffer
\* a finalize stages for the provider is the concatenation of exactly that
\* audio, so the silence chunk whose ingest starts the finalize is not in it,
\* and the buffer does not change while the call is in flight.
C12_BodyIsRetainedChunks ==
  [][\A rid \in RateIds : LET id == IdOf(rid) IN
        /\ \A rate \in RatesTwo, chunk \in RateChunks :
              Stream(rid, rate, chunk) =>
                LET kept == IsActive(calcRMS(chunk)) \/ ~WarmedUp(id)
                    retained == IF kept THEN Append(AudioBefore(id), chunk) ELSE AudioBefore(id)
                IN /\ id \in DOMAIN sessions' => sessions'[id].audio = retained
                   /\ (StartedFor(id) /\ Last(finalizes').pc = "fetch") =>
                         ~kept /\ Last(finalizes').body = BufferConcat(AudioBefore(id))
        /\ (ManualStep(id) /\ Last(finalizes').pc = "fetch") =>
              Last(finalizes').body = BufferConcat(sessions[id].audio)
        /\ (~StreamStep(id) /\ id \in DOMAIN sessions /\ id \in DOMAIN sessions') =>
              sessions'[id].audio = sessions[id].audio
        /\ \A i \in DOMAIN finalizes :
              finalizes'[i].pc = "fetch" => finalizes'[i].body = finalizes[i].body]_vars

\* an automatic finalize in flight whose buffer is a kept leading silence chunk
\* and a loud chunk (2000 ms as declared, at 8000 Hz), started by a later silence
\* chunk that is not in the buffer
C12_Witness ==
  \E i \in DOMAIN finalizes :
    /\ finalizes[i].auto /\ finalizes[i].pc = "fetch"
    /\ finalizes[i].body = <<[amp |-> -655, len |-> 16000], [amp |-> 656, len |-> 32000]>>
    /\ lastResp.op = "stream" /\ lastResp.id = finalizes[i].id /\ ~IsActive(lastResp.rms)

InFlight(i, id) == finalizes[i].id = id /\ finalizes[i].pc = "fetch"

\* C13: the step that starts a finalize takes the session out of the store and
\* stages its audio in the same step, before the provider is called.  While the
\* call is in flight nothing but its own completion changes what it holds; a
\* chunk for the same id finds no session and creates a fresh one holding that
\* chunk alone, a manual finalize for the id finds nothing to finalize unless
\* such a fresh session exists, and a read answers from the transcript store
\* alone and changes nothing.
C13_RemovedBeforeCall ==
  [][\A rid \in RateIds : LET id == IdOf(rid) IN
        /\ StartedFor(id) =>
              /\ id \in DOMAIN sessions /\ id \notin DOMAIN sessions'
              /\ Last(finalizes').pc = "fetch" => Last(finalizes').tmpFile \in files'
        /\ \A i \in DOMAIN finalizes : InFlight(i, id) =>
              /\ finalizes'[i].pc = "fetch" => finalizes'[i] = finalizes[i]
              /\ \A rate \in RatesTwo, chunk \in RateChunks :
                    (Stream(rid, rate, chunk) /\ id \notin DOMAIN sessions) =>
                      /\ id \in DOMAIN sessions' /\ sessions'[id].audio = <<chunk>>
                      /\ sessions'[id].rmsActiveTime = ActiveGain(chunk, rate)
                      /\ finalizes' = finalizes
              /\ NotFoundStep(id) => lastResp'.status = 404 /\ finalizes' = finalizes
              /\ (lastResp' # lastResp /\ lastResp'.op = "transcript" /\ lastResp'.id = id) =>
                    /\ lastResp' = TranscriptResponse(id)
                    /\ UNCHANGED <<sessions, finalizes, transcripts>>]_vars

\* a call in flight for an id that has a fresh one-chunk session in the store
C13_Witness ==
  \E i \in DOMAIN finalizes :
    /\ finalizes[i].pc = "fetch"
    /\ finalizes[i].id \in DOMAIN sessions
    /\ Len(sessions[finalizes[i].id].audio) = 1
    /\ Len(finalizes[i].body) >= 1
    /\ lastResp.op = "stream" /\ lastResp.id = finalizes[i].id

\* C14: a transcript is stored only by the step in which a run of the Finalizer
\* for that id completes its provider call, and that step completes one run and
\* stores for one id.  Every run takes its session instance out of the store
\* when it starts, makes its one provider call, and once ended stays ended: per
\* session instance there is at most one call and at most one write.
C14_OneCallOneWritePerSession ==
  [][ /\ \A id \in DOMAIN transcripts' : WroteTranscript(id) =>
           \E i \in DOMAIN finalizes :
             /\ InFlight(i, id) /\ finalizes'[i].pc = "done"
             /\ \A k \in DOMAIN finalizes : k # i => finalizes'[k] = finalizes[k]
             /\ \A other \in DOMAIN transcripts' : other # id => ~WroteTranscript(other)
      /\ \A i \in DOMAIN finalizes :
           /\ i \in DOMAIN finalizes'
           /\ finalizes[i].pc = "done" => finalizes'[i] = finalizes[i]
           /\ finalizes'[i].id = finalizes[i].id
      /\ Len(finalizes') <= Len(finalizes) + 1
      /\ Started =>
           /\ Last(finalizes').id \in DOMAIN sessions
           /\ Last(finalizes').id \notin DOMAIN sessions'
           /\ UNCHANGED <<transcripts, timers>>]_vars

\* two sessions of one id were finalized one after the other; both calls were
\* answered and the store holds a transcript for the id
C14_Witness ==
  \E i, j \in DOMAIN finalizes :
    /\ i < j /\ finalizes[i].id = finalizes[j].id
    /\ finalizes[i].auto /\ ~finalizes[j].auto
    /\ finalizes[i].pc = "done" /\ finalizes[i].resp = "answered"
    /\ finalizes[j].pc = "done" /\ finalizes[j].resp = "answered"
    /\ finalizes[i].id \in DOMAIN transcripts

\* C16: the step that completes a run (the provider answered, failed, or sent a
\* body that is not JSON) leaves no scratch file of that run, and every scratch
\* file present belongs to a run whose call is still in flight.
C16_ScratchReleased ==
  [][ /\ \A i \in DOMAIN finalizes :
           (finalizes[i].pc = "fetch" /\ finalizes'[i].pc = "done") =>
             /\ finalizes'[i].resp \in {"answered", "httperr", "error"}
             /\ finalizes[i].tmpFile \notin files'
      /\ \A f \in files' :
           \E i \in DOMAIN finalizes' : finalizes'[i].pc = "fetch" /\ finalizes'[i].tmpFile = f]_vars

\* two runs that staged a scratch file have completed, one with an answer and
\* one with a logged error, and no scratch file is left
C16_Witness ==
  /\ files = {}
  /\ \E i, j \in DOMAIN finalizes :
       /\ finalizes[i].pc = "done" /\ finalizes[i].resp = "answered"
       /\ finalizes[j].pc = "done" /\ finalizes[j].resp = "error"

\* C19: the ingest of an active chunk sets lastHeard to now, starts no finalize
\* and leaves the session in the store, whatever time has passed; a finalize is
\* started automatically only by the ingest of a silence-classified chunk for a
\* session that had started talking and heard at least 2000 ms before it.
C19_OnlySilenceAfterWarmupFinalizes ==
  [][\A rid \in ReqIds : LET id == IdOf(rid) IN
        /\ (StreamStep(id) /\ IsActive(lastResp'.rms)) =>
              /\ ~Started
              /\ id \in DOMAIN sessions' /\ sessions'[id].lastHeard = now
        /\ (StartedFor(id) /\ Last(finalizes').auto) =>
              /\ StreamStep(id) /\ ~IsActive(lastResp'.rms)
              /\ WarmedUp(id)]_vars

\* a loud chunk has just been taken in by a session that had heard more than
\* 2000 ms and then nothing for more than SILENCE_MS; the session is still there
C19_Witness ==
  \E id \in DOMAIN sessions :
    LET s == sessions[id] IN
    /\ Len(s.audio) = 2 /\ AllLoud(s.audio)
    /\ s.rmsActiveTime - DurationMs(s.audio[2].len, s.sampleRate) >= WARMUP_MS
    /\ s.lastHeard = now /\ now > SILENCE_MS
    /\ lastResp.op = "stream" /\ lastResp.id = id /\ IsActive(lastResp.rms)

----------------------------------------------------------------------------
(* The relay server, src/server.js: the store of upstream responses.  A     *)
(* stored response is the message text; n, its arrival number on the        *)
(* socket, tells apart messages of equal text.                              *)

WsTexts == {"{\"r\":1}", "{\"r\":2}"}     \* data.toString() of a text message

\* mutant of Drained: serving a poll leaves the store as it was
DrainedNothing(store) == store

\* lastWsResponses = [] after serving, server.js:107
Drained(store) == <<>>

\* ws.on("message"), server.js:24-39
WsMessage(txt, isBinary) ==
  /\ Len(upstream) < MaxMsg
  /\ upstream' = Append(upstream, [txt |-> txt, binary |-> isBinary])
  /\ lastWsResponses' =
       IF ~isBinary
       THEN Append(lastWsResponses, [n |-> Len(upstream) + 1, txt |-> txt])
       ELSE lastWsResponses
  /\ UNCHANGED <<pollOut, polled, clearedAt, nPoll>>
  /\ UNCHANGED <<now, sessions, transcripts, timers, finalizes, files, proc, nStream, lastResp, writtenAt>>

\* GET /poll, server.js:102-111
Poll ==
  /\ nPoll < MaxPoll
  /\ nPoll' = nPoll + 1
  /\ pollOut' = lastWsResponses
  /\ lastWsResponses' = Drained(lastWsResponses)
  /\ polled' = polled \o [k \in 1..Len(lastWsResponses) |-> lastWsResponses[k].n]
  /\ clearedAt' = Len(upstream)
  /\ UNCHANGED upstream
  /\ UNCHANGED <<now, sessions, transcripts, timers, finalizes, files, proc, nStream, lastResp, writtenAt>>

\* the setInterval callback, server.js:114-119; how it falls between messages
\* and polls is free
Cleanup ==
  /\ IF Len(lastWsResponses) > 0
     THEN lastWsResponses' = <<>> /\ clearedAt' = Len(upstream)
     ELSE UNCHANGED <<lastWsResponses, clearedAt>>
  /\ UNCHANGED <<upstream, pollOut, polled, nPoll>>
  /\ UNCHANGED <<now, sessions, transcripts, timers, finalizes, files, proc, nStream, lastResp, writtenAt>>

NextRelay ==
  \/ \E txt \in WsTexts, isBinary \in BOOLEAN : WsMessage(txt, isBinary)
  \/ Poll
  \/ Cleanup

SpecRelay == Init /\ [][NextRelay]_vars

\* the text messages among upstream[from+1 ..], oldest first, as the store holds them
RECURSIVE TextsSince(_, _)
TextsSince(from, msgs) ==
  IF Len(msgs) <= from THEN <<>>
  ELSE LET n == Len(msgs)
           rest == TextsSince(from, SubSeq(msgs, 1, n - 1))
       IN IF msgs[n].binary THEN rest ELSE Append(rest, [n |-> n, txt |-> msgs[n].txt])

\* C20: no upstream message is returned by two polls; the store always holds,
\* in arrival order, exactly the text messages that arrived since it was last
\* emptied by a poll or by the periodic cleanup (so never a binary message); a
\* poll returns the whole store and leaves it empty, hence a poll that no text
\* message has preceded since the last one returns the empty array.
C20_PolledAtMostOnce ==
  [][ /\ \A j, k \in DOMAIN polled' : j # k => polled'[j] # polled'[k]
      /\ lastWsResponses' = TextsSince(clearedAt', upstream')
      /\ \A k \in DOMAIN lastWsResponses' : ~upstream'[lastWsResponses'[k].n].binary
      /\ nPoll' = nPoll + 1 =>
           /\ pollOut' = TextsSince(clearedAt, upstream)
           /\ lastWsResponses' = <<>>
           /\ TextsSince(clearedAt, upstream) = <<>> => pollOut' = <<>>]_vars

\* two text messages and a binary one arrived; one poll returned the two texts
\* in order and the next poll returned the empty array
C20_Witness ==
  /\ nPoll = 2 /\ pollOut = <<>>
  /\ polled = <<1, 3>>
  /\ Len(upstream) = 3 /\ upstream[2].binary
  /\ lastWsResponses = <<>>

----------------------------------------------------------------------------
(* Progress: the provider eventually settles every call it was sent, and a  *)
(* timer that is due eventually runs.                                       *)

LiveSpec ==
  /\ Spec
  /\ WF_vars(\E i \in 1..MaxFinalize, resp \in Responses : Settle(i, resp))
  /\ WF_vars(\E t \in DOMAIN timers : Expire(t))

\* the same for the transcript store alone; time does not stand still while a
\* timer is pending
LiveExpiry ==
  /\ SpecExpiry
  /\ WF_vars(\E i \in 1..MaxFinalize, resp \in ExpiryResponses : Settle(i, resp))
  /\ WF_vars(\E t \in DOMAIN timers : Expire(t))
  /\ WF_vars(Idle)

\* how a run ends according to C17: its transcript was stored, or its failure
\* was logged by the catch and nothing was stored
EndedAsClaimed(i) ==
  /\ i \in DOMAIN finalizes
  /\ finalizes[i].pc = "done"
  /\ finalizes[i].resp \in {"answered", "httperr", "error"}

\* C17 as stated: every run of the Finalizer that found a session eventually
\* ends, either with its transcript stored or with its failure logged and
\* nothing stored.
C17_EveryFinalizeCompletes ==
  \A i \in 1..MaxFinalize : (i \in DOMAIN finalizes) ~> EndedAsClaimed(i)

\* C18 as stated: after every step each session in the store holds at least one
\* chunk, and every run of the Finalizer on an existing session gets past the
\* empty-audio return and calls the provider (a manual finalize of a session of
\* silence chunks included).
C18_FinalizeAlwaysCallsProvider ==
  [][ /\ \A id \in DOMAIN sessions' : sessions'[id].audio # <<>>
      /\ Started =>
           /\ Last(finalizes').resp # "noaudio"
           /\ Last(finalizes').pc = "fetch"
           /\ Last(finalizes').tmpFile \in files']_vars
====
